---- MODULE Spec2Model ----
(***************************************************************************)
(* Point<CoordinateType> of Point.hpp: three coordinates x_, y_, z_ of a   *)
(* caller-chosen type, a constructor that copies three values into them,   *)
(* const and non-const accessors x(), y(), z(), and distanceFrom().        *)
(*                                                                         *)
(* The template parameter is a variable fixed by Init.  Four               *)
(* instantiations are modelled, at a reduced width:                        *)
(*   "unsigned"  IntBits-bit unsigned arithmetic, which wraps,             *)
(*   "int"       IntBits-bit signed arithmetic, whose overflow is          *)
(*               undefined: a call that overflows either returns the       *)
(*               two's-complement (wrapped) value or traps,                *)
(*   "short"     a signed type narrower than int: its operands are         *)
(*               promoted to int before -, * and +,                        *)
(*   "double"    a floating type: finite values in units of 1/Scale,       *)
(*               the two infinities and NaN.                               *)
(***************************************************************************)
EXTENDS Integers, FiniteSets

\* Width of int and unsigned in the model (32 in a usual build).
IntBits == 5

\* Resolution of a modelled double: finite values are multiples of 1/Scale.
Scale == 16

ShortBits == IntBits \div 2

Pow2(n) == 2 ^ n

IntMin == -Pow2(IntBits - 1)
IntMax == Pow2(IntBits - 1) - 1
UIntMax == Pow2(IntBits) - 1
ShortMax == Pow2(ShortBits - 1) - 1

\* Largest finite double, in units of 1/Scale: every int and unsigned
\* converts to a finite double.
DblMax == Pow2(IntBits) * Pow2(IntBits) * Scale

CoordinateTypes == {"unsigned", "int", "short", "double"}
IntegerTypes == {"unsigned", "int", "short"}

PointIds == {1, 2}

VARIABLES
    CoordinateType,  \* the template argument of this instantiation
    pts,             \* the Point objects: pts[i] = [x_, y_, z_]
    last,            \* the call made last, with its arguments and result
    aborted          \* the program was stopped by an overflow trap

vars == <<CoordinateType, pts, last, aborted>>

-----------------------------------------------------------------------------
(* double *)

Fin(v) == [k |-> "fin", v |-> v]
PosInf == [k |-> "inf", v |-> 1]
NegInf == [k |-> "inf", v |-> -1]
NaN == [k |-> "nan", v |-> 0]

\* The double that holds the integer n exactly.
D(n) == Fin(n * Scale)

Abs(v) == IF v < 0 THEN -v ELSE v

\* A finite result beyond the largest finite double becomes an infinity.
RoundD(v) ==
    IF v > DblMax THEN PosInf ELSE IF v < -DblMax THEN NegInf ELSE Fin(v)

\* n / d rounded to the nearest integer (d > 0).
RoundDiv(n, d) ==
    IF n >= 0 THEN (2 * n + d) \div (2 * d) ELSE -((2 * (-n) + d) \div (2 * d))

DNeg(a) == [a EXCEPT !.v = -a.v]

DSub(a, b) ==
    IF a.k = "nan" \/ b.k = "nan" THEN NaN
    ELSE IF a.k = "inf" /\ b.k = "inf" THEN (IF a.v = b.v THEN NaN ELSE a)
    ELSE IF a.k = "inf" THEN a
    ELSE IF b.k = "inf" THEN DNeg(b)
    ELSE RoundD(a.v - b.v)

DAdd(a, b) ==
    IF a.k = "nan" \/ b.k = "nan" THEN NaN
    ELSE IF a.k = "inf" /\ b.k = "inf" THEN (IF a.v = b.v THEN a ELSE NaN)
    ELSE IF a.k = "inf" THEN a
    ELSE IF b.k = "inf" THEN b
    ELSE RoundD(a.v + b.v)

Sign(v) == IF v > 0 THEN 1 ELSE IF v < 0 THEN -1 ELSE 0

DMul(a, b) ==
    IF a.k = "nan" \/ b.k = "nan" THEN NaN
    ELSE IF a.k = "inf" \/ b.k = "inf"
         THEN (IF a.v = 0 \/ b.v = 0 THEN NaN
               ELSE IF Sign(a.v) * Sign(b.v) > 0 THEN PosInf ELSE NegInf)
    ELSE IF a.v # 0 /\ Abs(b.v) > (DblMax * Scale) \div Abs(a.v)
         THEN (IF Sign(a.v) * Sign(b.v) > 0 THEN PosInf ELSE NegInf)
    ELSE RoundD(RoundDiv(a.v * b.v, Scale))

RECURSIVE FloorSqrt(_)
FloorSqrt(m) ==
    IF m < 2 THEN m
    ELSE LET r == 2 * FloorSqrt(m \div 4)
         IN  IF (r + 1) * (r + 1) <= m THEN r + 1 ELSE r

\* The integer nearest to the square root of m >= 0.
NearestSqrt(m) ==
    LET r == FloorSqrt(m) IN IF m - r * r > r THEN r + 1 ELSE r

\* std::sqrt(double): correctly rounded; NaN for a negative or NaN argument.
DSqrt(a) ==
    IF a.k = "nan" THEN NaN
    ELSE IF a.k = "inf" THEN (IF a.v > 0 THEN PosInf ELSE NaN)
    ELSE IF a.v < 0 THEN NaN
    ELSE Fin(NearestSqrt(a.v * Scale))

-----------------------------------------------------------------------------
(* integer coordinate types *)

\* The type -, * and + are evaluated in: operands narrower than int are
\* promoted to int.
Promoted(T) == IF T = "short" THEN "int" ELSE T

\* v brought into the IntBits-bit two's-complement range.
IntWrap(v) == ((v + Pow2(IntBits - 1)) % Pow2(IntBits)) - Pow2(IntBits - 1)

\* v modulo 2^IntBits.
UIntWrap(v) == v % Pow2(IntBits)

InIntRange(v) == IntMin <= v /\ v <= IntMax

\* a - b, a * b and a + b as CoordinateType T evaluates them.  For "int" (and
\* "short", promoted) the value is the two's-complement one, which is what an
\* overflowing call returns when it does not trap.
Sub(T, a, b) ==
    IF T = "double" THEN DSub(a, b)
    ELSE IF Promoted(T) = "unsigned" THEN UIntWrap(a - b)
    ELSE IntWrap(a - b)

Mul(T, a, b) ==
    IF T = "double" THEN DMul(a, b)
    ELSE IF Promoted(T) = "unsigned" THEN UIntWrap(a * b)
    ELSE IntWrap(a * b)

Add(T, a, b) ==
    IF T = "double" THEN DAdd(a, b)
    ELSE IF Promoted(T) = "unsigned" THEN UIntWrap(a + b)
    ELSE IntWrap(a + b)

\* The argument of std::sqrt: an integer sum is converted to double.
ToDouble(T, s) == IF T = "double" THEN s ELSE D(s)

-----------------------------------------------------------------------------
(* Point *)

\* Faulty variant of the constructor: the initializers of x_ and y_ swapped.
Point_swapped(a, b, c) == [x_ |-> b, y_ |-> a, z_ |-> c]

\* The constructor: x_{x}, y_{y}, z_{z}.
Point(a, b, c) == [x_ |-> a, y_ |-> b, z_ |-> c]

\* The accessors, read.
x(p) == p.x_
y(p) == p.y_
z(p) == p.z_

\* The non-const accessors, assigned through: p.x() = v.
x_ref(p, v) == [p EXCEPT !.x_ = v]
\* Faulty variant of the non-const y(): it returns a reference to z_.
y_ref_to_z(p, v) == [p EXCEPT !.z_ = v]

y_ref(p, v) == [p EXCEPT !.y_ = v]
z_ref(p, v) == [p EXCEPT !.z_ = v]

\* Faulty variants of distanceFrom.
\* The third term repeats the y difference.
distanceFrom_yy(T, this, other) ==
    DSqrt(ToDouble(T,
        Add(T,
            Add(T,
                Mul(T, Sub(T, this.x_, other.x_), Sub(T, this.x_, other.x_)),
                Mul(T, Sub(T, this.y_, other.y_), Sub(T, this.y_, other.y_))),
            Mul(T, Sub(T, this.y_, other.y_), Sub(T, this.y_, other.y_)))))

\* The x coordinates are added, not subtracted.
distanceFrom_plus(T, this, other) ==
    DSqrt(ToDouble(T,
        Add(T,
            Add(T,
                Mul(T, Add(T, this.x_, other.x_), Add(T, this.x_, other.x_)),
                Mul(T, Sub(T, this.y_, other.y_), Sub(T, this.y_, other.y_))),
            Mul(T, Sub(T, this.z_, other.z_), Sub(T, this.z_, other.z_)))))

\* The x difference is multiplied by x_, not by itself.
distanceFrom_asym(T, this, other) ==
    DSqrt(ToDouble(T,
        Add(T,
            Add(T,
                Mul(T, Sub(T, this.x_, other.x_), this.x_),
                Mul(T, Sub(T, this.y_, other.y_), Sub(T, this.y_, other.y_))),
            Mul(T, Sub(T, this.z_, other.z_), Sub(T, this.z_, other.z_)))))

\* The differences are squared with std::pow, in double, and summed in double.
distanceFrom_pow(T, this, other) ==
    LET dx == ToDouble(T, Sub(T, this.x_, other.x_))
        dy == ToDouble(T, Sub(T, this.y_, other.y_))
        dz == ToDouble(T, Sub(T, this.z_, other.z_))
    IN  DSqrt(DAdd(DAdd(DMul(dx, dx), DMul(dy, dy)), DMul(dz, dz)))

\* The z term is left out.
distanceFrom_noZ(T, this, other) ==
    DSqrt(ToDouble(T,
        Add(T,
            Mul(T, Sub(T, this.x_, other.x_), Sub(T, this.x_, other.x_)),
            Mul(T, Sub(T, this.y_, other.y_), Sub(T, this.y_, other.y_)))))

distanceFrom(T, this, other) ==
    DSqrt(ToDouble(T,
        Add(T,
            Add(T,
                Mul(T, Sub(T, this.x_, other.x_), Sub(T, this.x_, other.x_)),
                Mul(T, Sub(T, this.y_, other.y_), Sub(T, this.y_, other.y_))),
            Mul(T, Sub(T, this.z_, other.z_), Sub(T, this.z_, other.z_)))))

\* Whether evaluating distanceFrom overflows int: undefined behaviour.
SignedOverflow(T, this, other) ==
    /\ Promoted(T) = "int"
    /\ LET dx == this.x_ - other.x_
           dy == this.y_ - other.y_
           dz == this.z_ - other.z_
       IN  \E e \in {dx, dy, dz, dx * dx, dy * dy, dz * dz,
                     dx * dx + dy * dy, dx * dx + dy * dy + dz * dz} :
               ~InIntRange(e)

-----------------------------------------------------------------------------
(* the values the callers pass *)

\* With IntBits = 5 the unsigned sum wraps at 32 and the int sum overflows
\* above 15, so that these few values reach sums that fit and sums that do not.
Values(T) ==
    IF T = "unsigned" THEN {0, 3, 4}
    ELSE IF T = "int" THEN {-1, 0, 3}
    ELSE IF T = "short" THEN {-1, 0, 1}
    ELSE {D(0), D(3), PosInf}

-----------------------------------------------------------------------------
(* the operations *)

\* Both Points have been constructed, the second one last.
Init ==
    /\ CoordinateType \in CoordinateTypes
    /\ pts \in [PointIds -> {Point(a, b, c) : a \in Values(CoordinateType),
                                              b \in Values(CoordinateType),
                                              c \in Values(CoordinateType)}]
    /\ last = [op |-> "Point", i |-> 2,
               a |-> x(pts[2]), b |-> y(pts[2]), c |-> z(pts[2])]
    /\ aborted = FALSE

\* Faulty variant of the construction: it validates its arguments and fails
\* on a double that is not finite.
Construct_validating(i, a, b, c) ==
    /\ ~aborted
    /\ IF CoordinateType = "double" /\ \E d \in {a, b, c} : d.k # "fin"
       THEN /\ aborted' = TRUE
            /\ pts' = pts
       ELSE /\ aborted' = aborted
            /\ pts' = [pts EXCEPT ![i] = Point(a, b, c)]
    /\ last' = [op |-> "Point", i |-> i, a |-> a, b |-> b, c |-> c]
    /\ UNCHANGED CoordinateType

\* Point<CoordinateType> p{a, b, c};
Construct(i, a, b, c) ==
    /\ ~aborted
    /\ pts' = [pts EXCEPT ![i] = Point(a, b, c)]
    /\ last' = [op |-> "Point", i |-> i, a |-> a, b |-> b, c |-> c]
    /\ UNCHANGED <<CoordinateType, aborted>>

\* ... = p.x();
ReadX(i) ==
    /\ ~aborted
    /\ last' = [op |-> "x", i |-> i, ret |-> x(pts[i])]
    /\ UNCHANGED <<CoordinateType, pts, aborted>>

ReadY(i) ==
    /\ ~aborted
    /\ last' = [op |-> "y", i |-> i, ret |-> y(pts[i])]
    /\ UNCHANGED <<CoordinateType, pts, aborted>>

ReadZ(i) ==
    /\ ~aborted
    /\ last' = [op |-> "z", i |-> i, ret |-> z(pts[i])]
    /\ UNCHANGED <<CoordinateType, pts, aborted>>

\* p.x() = v;
WriteX(i, v) ==
    /\ ~aborted
    /\ pts' = [pts EXCEPT ![i] = x_ref(pts[i], v)]
    /\ last' = [op |-> "x=", i |-> i, v |-> v]
    /\ UNCHANGED <<CoordinateType, aborted>>

WriteY(i, v) ==
    /\ ~aborted
    /\ pts' = [pts EXCEPT ![i] = y_ref(pts[i], v)]
    /\ last' = [op |-> "y=", i |-> i, v |-> v]
    /\ UNCHANGED <<CoordinateType, aborted>>

WriteZ(i, v) ==
    /\ ~aborted
    /\ pts' = [pts EXCEPT ![i] = z_ref(pts[i], v)]
    /\ last' = [op |-> "z=", i |-> i, v |-> v]
    /\ UNCHANGED <<CoordinateType, aborted>>

\* Faulty variant of the call: the differences are computed in place, in the
\* members of the Point the call is made on.
DistanceFrom_inplace(i, j) ==
    /\ ~aborted
    /\ last' = [op |-> "distanceFrom", i |-> i, j |-> j,
                ret |-> distanceFrom(CoordinateType, pts[i], pts[j])]
    /\ pts' = [pts EXCEPT ![i] =
                   Point(Sub(CoordinateType, pts[i].x_, pts[j].x_),
                         Sub(CoordinateType, pts[i].y_, pts[j].y_),
                         Sub(CoordinateType, pts[i].z_, pts[j].z_))]
    /\ UNCHANGED <<CoordinateType, aborted>>

\* ... = p.distanceFrom(q);  the call returns.
DistanceFrom(i, j) ==
    /\ ~aborted
    /\ last' = [op |-> "distanceFrom", i |-> i, j |-> j,
                ret |-> distanceFrom(CoordinateType, pts[i], pts[j])]
    /\ UNCHANGED <<CoordinateType, pts, aborted>>

\* ... = p.distanceFrom(q);  a signed overflow traps and the program stops.
DistanceFromTrap(i, j) ==
    /\ ~aborted
    /\ SignedOverflow(CoordinateType, pts[i], pts[j])
    /\ aborted' = TRUE
    /\ last' = [op |-> "trap", i |-> i, j |-> j]
    /\ UNCHANGED <<CoordinateType, pts>>

Next ==
    \/ \E i \in PointIds : \E a, b, c \in Values(CoordinateType) :
           Construct(i, a, b, c)
    \/ \E i \in PointIds : ReadX(i)
    \/ \E i \in PointIds : ReadY(i)
    \/ \E i \in PointIds : ReadZ(i)
    \/ \E i \in PointIds : \E v \in Values(CoordinateType) : WriteX(i, v)
    \/ \E i \in PointIds : \E v \in Values(CoordinateType) : WriteY(i, v)
    \/ \E i \in PointIds : \E v \in Values(CoordinateType) : WriteZ(i, v)
    \/ \E i, j \in PointIds : DistanceFrom(i, j)
    \/ \E i, j \in PointIds : DistanceFromTrap(i, j)

Spec == Init /\ [][Next]_vars

-----------------------------------------------------------------------------
(* what the claims speak of *)

Returned == last.op = "distanceFrom"

\* Whether every coordinate of p is an ordinary number (every integer is; a
\* double is unless it is an infinity or NaN).
FinitePoint(T, p) ==
    T = "double" => p.x_.k = "fin" /\ p.y_.k = "fin" /\ p.z_.k = "fin"

\* The number a finite coordinate stands for (the doubles passed are whole).
Num(T, c) == IF T = "double" THEN c.v \div Scale ELSE c

Sq(n) == n * n

\* The sum of the squared differences over the integers, unbounded.
MathSum(T, p, q) ==
    Sq(Num(T, p.x_) - Num(T, q.x_)) + Sq(Num(T, p.y_) - Num(T, q.y_))
        + Sq(Num(T, p.z_) - Num(T, q.z_))

\* s reduced modulo 2^w: into 0 .. 2^w - 1 for an unsigned type, into the
\* two's-complement range for a signed one.
WrapTo(T, s) ==
    IF T = "unsigned" THEN s % Pow2(IntBits)
    ELSE IF T = "int"
    THEN ((s + Pow2(IntBits - 1)) % Pow2(IntBits)) - Pow2(IntBits - 1)
    ELSE ((s + Pow2(ShortBits - 1)) % Pow2(ShortBits)) - Pow2(ShortBits - 1)

TypeMax(T) ==
    IF T = "unsigned" THEN UIntMax ELSE IF T = "int" THEN IntMax ELSE ShortMax

\* r is the double nearest to the square root of the integer s >= 0, and is
\* k itself when s = k * k.
IsSqrtOf(r, s) ==
    /\ r.k = "fin"
    /\ r.v >= 0
    /\ 4 * s * Scale * Scale < Sq(2 * r.v + 1)
    /\ r.v > 0 => Sq(2 * r.v - 1) <= 4 * s * Scale * Scale
    /\ \A k \in 0..s : k * k = s => r = D(k)

\* C1: right after Point(a, b, c) is constructed, x(), y() and z() of that
\* Point return a, b and c, in that order.
C1_RoundTrip ==
    last.op = "Point" =>
        /\ x(pts[last.i]) = last.a
        /\ y(pts[last.i]) = last.b
        /\ z(pts[last.i]) = last.c

C1_Witness ==
    /\ last.op = "Point"
    /\ last.i = 1
    /\ last.a # last.b /\ last.b # last.c /\ last.a # last.c
    /\ <<x(pts[last.i]), y(pts[last.i]), z(pts[last.i])>>
           = <<last.a, last.b, last.c>>

\* C2: a write through x(), y() or z() of a Point makes that coordinate the
\* value written and changes no other coordinate of that Point and no
\* coordinate of any other Point.
C2_WriteFrame ==
    [][last'.op \in {"x=", "y=", "z="} =>
          /\ \A k \in PointIds \ {last'.i} : pts'[k] = pts[k]
          /\ last'.op = "x=" =>
                 pts'[last'.i] = Point(last'.v, y(pts[last'.i]), z(pts[last'.i]))
          /\ last'.op = "y=" =>
                 pts'[last'.i] = Point(x(pts[last'.i]), last'.v, z(pts[last'.i]))
          /\ last'.op = "z=" =>
                 pts'[last'.i] = Point(x(pts[last'.i]), y(pts[last'.i]), last'.v)
      ]_vars

C2_Witness ==
    /\ last.op = "y="
    /\ y(pts[last.i]) = last.v
    /\ x(pts[last.i]) # last.v
    /\ z(pts[last.i]) # last.v
    /\ \A k \in PointIds \ {last.i} : y(pts[k]) # last.v

C4_AnyValues ==
    (Returned /\ pts[last.i] = pts[last.j]) => last.ret = D(0)

\* C4, amended: distanceFrom of a Point to itself, or to a Point with equal
\* coordinates, is 0 when no coordinate is an infinity or NaN, and NaN when
\* one is.
C4_Identity ==
    (Returned /\ pts[last.i] = pts[last.j]) =>
        IF FinitePoint(CoordinateType, pts[last.i])
        THEN last.ret = D(0)
        ELSE last.ret = NaN

C4_Witness ==
    /\ Returned
    /\ last.i # last.j
    /\ pts[last.i] = pts[last.j]
    /\ FinitePoint(CoordinateType, pts[last.i])
    /\ MathSum(CoordinateType, pts[last.i], Point(x(pts[last.i]), x(pts[last.i]),
                                                 x(pts[last.i]))) > 0
    /\ last.ret = D(0)

\* C5: p.distanceFrom(q) returns what q.distanceFrom(p) returns.
C5_Symmetry ==
    Returned =>
        last.ret = distanceFrom(CoordinateType, pts[last.j], pts[last.i])

C5_Witness ==
    /\ Returned
    /\ last.i # last.j
    /\ x(pts[last.i]) # x(pts[last.j])
    /\ y(pts[last.i]) # y(pts[last.j])
    /\ last.ret.k = "fin"
    /\ last.ret.v > 0
    /\ last.ret = distanceFrom(CoordinateType, pts[last.j], pts[last.i])

\* C6: a read through x(), y() or z() and a call of distanceFrom change no
\* coordinate of any Point, and the same call made again returns the same.
C6_ReadOnly ==
    [][last'.op \in {"x", "y", "z", "distanceFrom", "trap"} =>
          /\ pts' = pts
          /\ (/\ last'.op # "trap"
              /\ last.op = last'.op
              /\ last.i = last'.i
              /\ (last.op = "distanceFrom" => last.j = last'.j))
                 => last'.ret = last.ret
      ]_vars

C6_Witness ==
    /\ Returned
    /\ last.i # last.j
    /\ pts[last.i] # pts[last.j]
    /\ last.ret # D(0)

\* C7: no construction, read or write leads to an error state, and in every
\* state where the program runs every construction, read and write, with any
\* values, can be made.
C7_NoErrorPath ==
    /\ aborted => last.op = "trap"
    /\ ~aborted =>
           \A i \in PointIds :
               /\ ENABLED ReadX(i) /\ ENABLED ReadY(i) /\ ENABLED ReadZ(i)
               /\ \A v \in Values(CoordinateType) :
                      /\ ENABLED WriteX(i, v)
                      /\ ENABLED WriteY(i, v)
                      /\ ENABLED WriteZ(i, v)
               /\ \A a, b, c \in Values(CoordinateType) :
                      ENABLED Construct(i, a, b, c)

C7_Witness ==
    /\ CoordinateType = "double"
    /\ ~aborted
    /\ last.op = "x="
    /\ last.v = PosInf
    /\ x(pts[last.i]) = PosInf

\* C9 as claimed: for an integer coordinate type of w bits the value returned
\* is the square root of the sum of squared differences reduced modulo 2^w.
C9_WrapsAtOwnWidth ==
    (Returned /\ CoordinateType \in IntegerTypes) =>
        last.ret = DSqrt(D(WrapTo(CoordinateType,
                                  MathSum(CoordinateType, pts[last.i], pts[last.j]))))

\* C9, amended: for an integer coordinate type the value returned is the
\* square root of the sum of squared differences reduced modulo 2^w, where w
\* is the width of the type the arithmetic is done in: the coordinate type
\* itself, or int for a coordinate type narrower than int.
C9_WrapsAtPromotedWidth ==
    (Returned /\ CoordinateType \in IntegerTypes) =>
        last.ret = DSqrt(D(WrapTo(Promoted(CoordinateType),
                                  MathSum(CoordinateType, pts[last.i], pts[last.j]))))

C9_Witness ==
    /\ CoordinateType = "unsigned"
    /\ Returned
    /\ MathSum(CoordinateType, pts[last.i], pts[last.j]) > UIntMax
    /\ last.ret = DSqrt(D(MathSum(CoordinateType, pts[last.i], pts[last.j])
                              % Pow2(IntBits)))

\* C10 as claimed: for an integer coordinate type the distance between two
\* Points that differ in some coordinate is strictly positive.
C10_ZeroOnlyIfEqual ==
    (Returned /\ CoordinateType \in IntegerTypes /\ pts[last.i] # pts[last.j]) =>
        (last.ret.k = "fin" /\ last.ret.v > 0)

\* C10, amended: for an integer coordinate type the distance between two
\* Points that differ in some coordinate is strictly positive, provided the
\* sum of squared differences does not exceed the largest value of the type
\* the arithmetic is done in.
C10_ZeroOnlyIfEqualNoOverflow ==
    (/\ Returned
     /\ CoordinateType \in IntegerTypes
     /\ pts[last.i] # pts[last.j]
     /\ MathSum(CoordinateType, pts[last.i], pts[last.j])
            <= TypeMax(Promoted(CoordinateType))) =>
        (last.ret.k = "fin" /\ last.ret.v > 0)

C10_Witness ==
    /\ Returned
    /\ CoordinateType \in IntegerTypes
    /\ z(pts[last.i]) # z(pts[last.j])
    /\ x(pts[last.i]) = x(pts[last.j])
    /\ y(pts[last.i]) = y(pts[last.j])
    /\ MathSum(CoordinateType, pts[last.i], pts[last.j])
           <= TypeMax(Promoted(CoordinateType))
    /\ last.ret.v > 0

====
